---- MODULE Spec2Model ----
(* Model of wg_victorinox.py: the add / remove / list / save peer workflows *)
(* around the privileged `wg` control command, the key file, the snapshot   *)
(* file and the mail delivery of a client profile.                          *)
(*                                                                          *)
(* A Python str is modelled as a sequence of tokens: a token is either one  *)
(* whitespace character (SP, TAB, NL) or an unbreakable run of other        *)
(* characters.  A list of str is a sequence of such sequences.              *)
EXTENDS Integers, Sequences, FiniteSets, TLC

VARIABLES peers, files, peers0, files0, last, trace, frame, ret, deliveries

vars == <<peers, files, peers0, files0, last, trace, frame, ret, deliveries>>

-----------------------------------------------------------------------------
(* Bounds of the model *)

NumKeys == 2
NumAddrs == 2
MaxDeliveries == 1

-----------------------------------------------------------------------------
(* Python string primitives *)

SP == " "
TAB == "\t"
NL == "\n"
WS == {SP, TAB, NL}

RECURSIVE LStrip(_)
LStrip(s) == IF s # <<>> /\ Head(s) \in WS THEN LStrip(Tail(s)) ELSE s

RECURSIVE RStrip(_)
RStrip(s) ==
    IF s # <<>> /\ s[Len(s)] \in WS THEN RStrip(SubSeq(s, 1, Len(s) - 1)) ELSE s

\* str.strip()
Strip(s) == RStrip(LStrip(s))

\* str.split(sep): never empty, "" gives [""]
RECURSIVE SplitOn(_, _)
SplitOn(s, sep) ==
    IF \A i \in 1..Len(s) : s[i] # sep
    THEN <<s>>
    ELSE LET i == CHOOSE k \in 1..Len(s) :
                      s[k] = sep /\ \A j \in 1..(k - 1) : s[j] # sep
         IN  <<SubSeq(s, 1, i - 1)>> \o SplitOn(SubSeq(s, i + 1, Len(s)), sep)

\* str.split(): runs of whitespace separate, no empty strings, "" gives []
RECURSIVE SplitWS(_)
SplitWS(s) ==
    LET t == LStrip(s)
    IN  IF t = <<>>
        THEN <<>>
        ELSE LET n == IF \A i \in 1..Len(t) : t[i] \notin WS
                      THEN Len(t) + 1
                      ELSE CHOOSE k \in 1..Len(t) :
                               t[k] \in WS /\ \A j \in 1..(k - 1) : t[j] \notin WS
             IN  <<SubSeq(t, 1, n - 1)>> \o SplitWS(SubSeq(t, n, Len(t)))

\* s[:n]
PrefixLen == 8
Prefix(s, n) == SubSeq(s, 1, IF Len(s) < n THEN Len(s) ELSE n)

-----------------------------------------------------------------------------
(* Values the operations are called with *)

KeyNames == <<"a", "b", "c", "d">>
PubNames == <<"A", "B", "C", "D">>
AddrNames == <<"10.0.0.5", "10.0.0.6", "10.0.0.7", "10.0.0.8">>

PrivKeys == {<<KeyNames[i]>> : i \in 1..NumKeys}
PubKeys == {<<PubNames[i]>> : i \in 1..NumKeys}
Addrs == {<<AddrNames[i]>> : i \in 1..NumAddrs}

\* None / "" : falsy in `if not pubkey`, `if email`, `if output_dir`
None == <<>>

Devices == {<<"wg0">>}
Ifaces == Devices \cup {<<"wg9">>}
KeyPaths == {<<"/k1">>}
DestPaths == {<<"/peers.json">>}
Recipient == <<"u@example.com">>
OutDir == <<"/out">>

\* `wg pubkey`: the public key of a private key; fails on anything else
Derive(priv) ==
    IF \E i \in 1..NumKeys : priv = <<KeyNames[i]>>
    THEN LET i == CHOOSE k \in 1..NumKeys : priv = <<KeyNames[k]>>
         IN  <<PubNames[i]>>
    ELSE None

Commands == {"add", "remove", "list", "save"}

\* outcomes of the external collaborators that the program does not control
FailPoints == {"none", "genkey", "pubkey", "keywrite", "imgsave", "attach",
               "connect", "login", "send"}

Call(c, a, d) == [call |-> c, args |-> a, data |-> d]

WriteFile(f, p, d) == [n \in DOMAIN f \cup {p} |-> IF n = p THEN d ELSE f[n]]

NoFiles == [n \in {} |-> None]

-----------------------------------------------------------------------------
(* The privileged control command, as the program drives it.               *)
(* peers[d] is the ordered authorization set of device d: one entry per   *)
(* public key.  A command on a device that does not exist, or with an      *)
(* argument vector of the wrong shape, exits non-zero.                     *)

Index(seq, pk) ==
    IF \E i \in 1..Len(seq) : seq[i].pk = pk
    THEN CHOOSE i \in 1..Len(seq) : seq[i].pk = pk
    ELSE 0

\* wg set <dev> peer <pk> allowed-ips <ips>: update in place, or append
Upsert(seq, pk, ips) ==
    IF Index(seq, pk) = 0
    THEN Append(seq, [pk |-> pk, allowed |-> ips])
    ELSE [seq EXCEPT ![Index(seq, pk)].allowed = ips]

\* wg set <dev> peer <pk> remove: absent peer is not an error
Without(seq, pk) == SelectSeq(seq, LAMBDA e : e.pk # pk)

\* wg show <dev> peers: one line per peer, device TAB public key
RECURSIVE ShowPeers(_, _)
ShowPeers(dev, seq) ==
    IF seq = <<>>
    THEN <<>>
    ELSE dev \o <<TAB>> \o Head(seq).pk \o <<NL>> \o ShowPeers(dev, Tail(seq))

WgFail(p) == [ok |-> FALSE, peers |-> p, out |-> None]

Wg(argv, p) ==
    IF Len(argv) < 4 \/ argv[1] # <<"sudo">> \/ argv[2] # <<"wg">>
       \/ argv[4] \notin Devices
    THEN WgFail(p)
    ELSE LET dev == argv[4] IN
         IF /\ argv[3] = <<"set">> /\ Len(argv) = 10 /\ argv[5] = <<"peer">>
            /\ argv[7] = <<"allowed-ips">> /\ argv[9] = <<"--private-key">>
         THEN [ok |-> TRUE, out |-> None,
               peers |-> [p EXCEPT ![dev] = Upsert(p[dev], argv[6], argv[8])]]
         ELSE IF /\ argv[3] = <<"set">> /\ Len(argv) = 7 /\ argv[5] = <<"peer">>
                 /\ argv[7] = <<"remove">>
         THEN [ok |-> TRUE, out |-> None,
               peers |-> [p EXCEPT ![dev] = Without(p[dev], argv[6])]]
         ELSE IF argv[3] = <<"show">> /\ Len(argv) = 5 /\ argv[5] = <<"peers">>
         THEN [ok |-> TRUE, out |-> ShowPeers(dev, p[dev]), peers |-> p]
         ELSE WgFail(p)

-----------------------------------------------------------------------------
(* Running state of one operation: the interface, the file system, the     *)
(* external calls made so far, the outcome, add_peer's local variables     *)
(* and the value returned.                                                 *)

NoFrame ==
    [ip_address |-> None, private_key_file |-> None, wg_interface |-> None,
     pubkey |-> None, privkey |-> None, qr_data |-> None, img |-> None,
     generated |-> FALSE]

Start(p, f) ==
    [peers |-> p, files |-> f, trace |-> <<>>, status |-> "ok",
     frame |-> NoFrame, ret |-> <<>>]

Did(st, c) == [st EXCEPT !.trace = Append(@, c)]
Raise(st, c) == [Did(st, c) EXCEPT !.status = "error"]

-----------------------------------------------------------------------------
(* list_peers *)

ListCmd(wg_interface) ==
    <<"sudo", SP, "wg", SP, "show", SP>> \o wg_interface \o <<SP, "peers">>

\* faulty variant of KeyField: takes the first field of the line
KeyFieldFirst(line) == SplitOn(line, TAB)[1]

\* line.split("\t")[1]; IndexError when the line has no second field
HasKeyField(line) == Len(SplitOn(line, TAB)) >= 2
KeyField(line) == SplitOn(line, TAB)[2]

OutputLines(output) == SplitOn(Strip(output), NL)

ListPeers(st, wg_interface) ==
    LET argv == SplitWS(ListCmd(wg_interface))
        r == Wg(argv, st.peers)
        s1 == Did(st, Call("list_peers", <<wg_interface>>, None))
    IN  IF ~r.ok
        THEN Raise(s1, Call("wg", argv, None))
        ELSE LET s2 == Did(s1, Call("wg", argv, r.out))
                 lines == OutputLines(r.out)
             IN  IF \E i \in 1..Len(lines) : ~HasKeyField(lines[i])
                 THEN Raise(s2, Call("IndexError", <<>>, None))
                 ELSE [s2 EXCEPT !.ret =
                          [i \in 1..Len(lines) |-> KeyField(lines[i])]]

-----------------------------------------------------------------------------
(* save_peers *)

\* json.dump of a list of str
RECURSIVE JsonItems(_)
JsonItems(l) ==
    IF l = <<>> THEN <<>>
    ELSE <<"\"">> \o Head(l) \o <<"\"">>
         \o (IF Len(l) > 1 THEN <<",", SP>> ELSE <<>>) \o JsonItems(Tail(l))

JsonDump(l) == <<"[">> \o JsonItems(l) \o <<"]">>

\* faulty variant of SavePeers: opens the file for writing before it lists
SavePeersOpenFirst(st, wg_interface, filename) ==
    LET s0 == [Did(st, Call("save_peers", <<wg_interface, filename>>, None))
                 EXCEPT !.files = WriteFile(@, filename, None)]
        s1 == ListPeers(s0, wg_interface)
    IN  IF s1.status # "ok"
        THEN s1
        ELSE [Did(s1, Call("write", <<filename>>, JsonDump(s1.ret)))
                EXCEPT !.files = WriteFile(@, filename, JsonDump(s1.ret)),
                       !.ret = <<>>]

SavePeers(st, wg_interface, filename) ==
    LET s0 == Did(st, Call("save_peers", <<wg_interface, filename>>, None))
        s1 == ListPeers(s0, wg_interface)
    IN  IF s1.status # "ok"
        THEN s1
        ELSE [Did(s1, Call("write", <<filename>>, JsonDump(s1.ret)))
                EXCEPT !.files = WriteFile(@, filename, JsonDump(s1.ret)),
                       !.ret = <<>>]

-----------------------------------------------------------------------------
(* remove_peer *)

\* faulty variant of RemoveCmd: interface and public key change places
RemoveCmdSwapped(pubkey, wg_interface) ==
    <<"sudo", SP, "wg", SP, "set", SP>> \o pubkey
        \o <<SP, "peer", SP>> \o wg_interface \o <<SP, "remove">>

RemoveCmd(pubkey, wg_interface) ==
    <<"sudo", SP, "wg", SP, "set", SP>> \o wg_interface
        \o <<SP, "peer", SP>> \o pubkey \o <<SP, "remove">>

RemovePeer(st, pubkey, wg_interface) ==
    LET argv == SplitWS(RemoveCmd(pubkey, wg_interface))
        r == Wg(argv, st.peers)
        s1 == Did(st, Call("remove_peer", <<pubkey, wg_interface>>, None))
    IN  IF ~r.ok
        THEN Raise(s1, Call("wg", argv, None))
        ELSE [Did(s1, Call("wg", argv, None)) EXCEPT !.peers = r.peers]

-----------------------------------------------------------------------------
(* add_peer *)

AddCmd(wg_interface, pubkey, ip_address, private_key_file) ==
    <<"sudo", SP, "wg", SP, "set", SP>> \o wg_interface
        \o <<SP, "peer", SP>> \o pubkey
        \o <<SP, "allowed-ips", SP>> \o ip_address \o <<"/24">>
        \o <<SP, "--private-key", SP>> \o private_key_file

\* faulty variant of Generate: writes the public key to the file
GenerateWritesPublic(st, private_key_file, env) ==
    IF env.fail = "genkey"
    THEN Raise(st, Call("genkey", <<>>, None))
    ELSE LET privkey == Strip(env.gen \o <<NL>>)
             s1 == [Did(st, Call("genkey", <<>>, privkey))
                      EXCEPT !.frame.privkey = privkey]
         IN  IF env.fail = "pubkey"
             THEN Raise(s1, Call("pubkey", <<>>, None))
             ELSE LET pk == Strip(Derive(privkey) \o <<NL>>)
                      s2 == [Did(s1, Call("pubkey", <<>>, pk))
                               EXCEPT !.frame.pubkey = pk]
                  IN  IF env.fail = "keywrite"
                      THEN Raise(s2, Call("write", <<private_key_file>>, None))
                      ELSE [Did(s2, Call("write", <<private_key_file>>, pk))
                              EXCEPT !.files = WriteFile(@, private_key_file, pk),
                                     !.frame.generated = TRUE]

\* lines 16-21: generate a key pair and write the private key to the file
Generate(st, private_key_file, env) ==
    IF env.fail = "genkey"
    THEN Raise(st, Call("genkey", <<>>, None))
    ELSE LET privkey == Strip(env.gen \o <<NL>>)
             s1 == [Did(st, Call("genkey", <<>>, privkey))
                      EXCEPT !.frame.privkey = privkey]
         IN  IF env.fail = "pubkey"
             THEN Raise(s1, Call("pubkey", <<>>, None))
             ELSE LET pk == Strip(Derive(privkey) \o <<NL>>)
                      s2 == [Did(s1, Call("pubkey", <<>>, pk))
                               EXCEPT !.frame.pubkey = pk]
                  IN  IF env.fail = "keywrite"
                      THEN Raise(s2, Call("write", <<private_key_file>>, None))
                      ELSE [Did(s2, Call("write", <<private_key_file>>, privkey))
                              EXCEPT !.files = WriteFile(@, private_key_file, privkey),
                                     !.frame.generated = TRUE]

\* faulty variant of Reuse: keeps the file content as it is read
ReuseUnstripped(st, pubkey, private_key_file) ==
    IF private_key_file \notin DOMAIN st.files
    THEN Raise(st, Call("read", <<private_key_file>>, None))
    ELSE [Did(st, Call("read", <<private_key_file>>, st.files[private_key_file]))
            EXCEPT !.frame.privkey = st.files[private_key_file],
                   !.frame.pubkey = pubkey]

\* lines 23-25: read the private key from the file
Reuse(st, pubkey, private_key_file) ==
    IF private_key_file \notin DOMAIN st.files
    THEN Raise(st, Call("read", <<private_key_file>>, None))
    ELSE [Did(st, Call("read", <<private_key_file>>, st.files[private_key_file]))
            EXCEPT !.frame.privkey = Strip(st.files[private_key_file]),
                   !.frame.pubkey = pubkey]

\* lines 15-25
Provision(st, pubkey, private_key_file, env) ==
    IF pubkey = None
    THEN Generate(st, private_key_file, env)
    ELSE Reuse(st, pubkey, private_key_file)

\* lines 27-31: the authorize call
Authorize(st) ==
    LET f == st.frame
        argv == SplitWS(AddCmd(f.wg_interface, f.pubkey, f.ip_address,
                               f.private_key_file))
        r == Wg(argv, st.peers)
    IN  IF ~r.ok
        THEN Raise(st, Call("wg", argv, None))
        ELSE [Did(st, Call("wg", argv, None)) EXCEPT !.peers = r.peers]

\* lines 35-39
MailProfile(f) ==
    <<"interface", SP>> \o f.wg_interface \o <<NL>>
        \o <<"private_key", SP>> \o f.privkey \o <<NL>>
        \o <<"peer", SP>> \o f.pubkey \o <<NL>>
        \o <<"allowed_ips", SP>> \o f.ip_address \o <<"/32", NL>>
        \o <<"endpoint", SP, "<server_ip_address>:51820", NL>>

\* lines 66-69
ScreenProfile(f) ==
    <<"interface", SP>> \o f.wg_interface \o <<NL>>
        \o <<"private_key", SP>> \o f.privkey \o <<NL>>
        \o <<"peer", SP>> \o f.pubkey \o <<NL>>
        \o <<"allowed_ips", SP>> \o f.ip_address \o <<"/32", NL>>

\* qrcode.make / QRCode.add_data + make_image: the symbol carrying the text
QrMake(data) == <<"QR">> \o data

\* lines 49-52
ImageName(output_dir, pubkey) ==
    IF output_dir # None
    THEN output_dir \o <<"/wg_client_">> \o Prefix(pubkey, PrefixLen) \o <<".png">>
    ELSE <<"wg_client_">> \o Prefix(pubkey, PrefixLen) \o <<".png">>

\* lines 34-63: mail the profile and its image to the recipient
Deliver(st, output_dir, email, env) ==
    LET qr_data == MailProfile(st.frame)
        img == QrMake(qr_data)
        filename == ImageName(output_dir, st.frame.pubkey)
        s0 == [st EXCEPT !.frame.qr_data = qr_data, !.frame.img = img]
    IN  IF env.fail = "imgsave"
        THEN Raise(s0, Call("save", <<filename>>, None))
        ELSE LET s1 == [Did(s0, Call("save", <<filename>>, img))
                          EXCEPT !.files = WriteFile(@, filename, img)]
             IN  IF env.fail = "attach"
                 THEN Raise(s1, Call("attach", <<filename>>, None))
                 ELSE LET s2 == Did(s1, Call("attach", <<filename>>, img))
                      IN  IF env.fail = "connect"
                          THEN Raise(s2, Call("smtp", <<>>, None))
                          ELSE LET s3 == Did(s2, Call("smtp", <<>>, None))
                               IN  IF env.fail = "login"
                                   THEN Raise(s3, Call("login", <<>>, None))
                                   ELSE LET s4 == Did(s3, Call("login", <<>>, None))
                                        IN  IF env.fail = "send"
                                            THEN Raise(s4, Call("sendmail", <<email>>, None))
                                            ELSE Did(s4, Call("sendmail", <<email>>,
                                                              qr_data \o img))

\* lines 65-73: build the image for the screen
Render(st) ==
    [st EXCEPT !.frame.qr_data = ScreenProfile(st.frame),
               !.frame.img = QrMake(ScreenProfile(st.frame))]

\* faulty variant of AddPeer: revokes the peer when the delivery fails
AddPeerRollback(st, ip_address, private_key_file, wg_interface, pubkey, output_dir, email, env) ==
    LET s0 == [Did(st, Call("add_peer",
                            <<ip_address, private_key_file, wg_interface, pubkey>>,
                            None))
                 EXCEPT !.frame.ip_address = ip_address,
                        !.frame.private_key_file = private_key_file,
                        !.frame.wg_interface = wg_interface]
        s1 == Provision(s0, pubkey, private_key_file, env)
        s2 == IF s1.status = "ok" THEN Authorize(s1) ELSE s1
        s3 == Deliver(s2, output_dir, email, env)
    IN  IF s2.status # "ok"
        THEN s2
        ELSE IF email # None
             THEN IF s3.status = "ok"
                  THEN s3
                  ELSE [RemovePeer(s3, s3.frame.pubkey, wg_interface)
                          EXCEPT !.status = "error"]
             ELSE Render(s2)

AddPeer(st, ip_address, private_key_file, wg_interface, pubkey, output_dir, email, env) ==
    LET s0 == [Did(st, Call("add_peer",
                            <<ip_address, private_key_file, wg_interface, pubkey>>,
                            None))
                 EXCEPT !.frame.ip_address = ip_address,
                        !.frame.private_key_file = private_key_file,
                        !.frame.wg_interface = wg_interface]
        s1 == Provision(s0, pubkey, private_key_file, env)
        s2 == IF s1.status = "ok" THEN Authorize(s1) ELSE s1
    IN  IF s2.status # "ok"
        THEN s2
        ELSE IF email # None
             THEN Deliver(s2, output_dir, email, env)
             ELSE Render(s2)

-----------------------------------------------------------------------------
(* main *)

Arity(command) ==
    IF command = "add" THEN 4
    ELSE IF command = "remove" THEN 2
    ELSE IF command = "list" THEN 1
    ELSE 2

\* parser.parse_args(): a missing or unknown selector, or a wrong number of
\* positional arguments, is a usage error (exit status 2)
ParseOk(argv) ==
    /\ Len(argv) >= 1
    /\ argv[1] \in {<<c>> : c \in Commands}
    /\ Len(argv) = 1 + Arity(argv[1][1])

\* lines 133-138: the dispatch.  args.pubkey = argv[2], args.ip_address =
\* argv[3], args.private_key_file = argv[4], args.wg_interface = argv[5]
Dispatch(st, argv, env) ==
    IF argv[1] = <<"add">>
    THEN AddPeer(st, argv[2], argv[3], argv[4], argv[5], None, None, env)
    ELSE IF argv[1] = <<"remove">>
    THEN RemovePeer(st, argv[2], argv[3])
    ELSE st

ExitStatus(status) == IF status = "ok" THEN 0 ELSE 1

-----------------------------------------------------------------------------
(* The state machine: each step is one invocation of the program, either   *)
(* of the script through main or of one of its functions by an importer.   *)

Op(via, cmd, argv, status, exit) ==
    [via |-> via, cmd |-> cmd, argv |-> argv, status |-> status, exit |-> exit]

\* a key file left by an earlier `wg genkey > file`, or none
InitFiles == {NoFiles} \cup {[n \in {kp} |-> <<KeyNames[1], NL>>] : kp \in KeyPaths}

Init ==
    /\ peers = [d \in Devices |-> <<>>]
    /\ files \in InitFiles
    /\ peers0 = peers
    /\ files0 = files
    /\ last = Op("none", "none", <<>>, "ok", 0)
    /\ trace = <<>>
    /\ frame = NoFrame
    /\ ret = <<>>
    /\ deliveries = 0

KeyFails == {"genkey", "pubkey", "keywrite"}
MailFails == {"imgsave", "attach", "connect", "login", "send"}

\* the outcomes that an add_peer call with these arguments can meet: key
\* generation only without a public key, delivery only with a recipient
Envs(pubkey, email) ==
    {e \in [gen : PrivKeys, fail : FailPoints] :
        /\ pubkey # None => e.gen = <<KeyNames[1]>> /\ e.fail \notin KeyFails
        /\ email = None => e.fail \notin MailFails}

\* peers0 and files0 keep the interface and the files as they were when the
\* operation started
Finish(r, op) ==
    /\ peers' = r.peers
    /\ files' = r.files
    /\ peers0' = peers
    /\ files0' = files
    /\ trace' = r.trace
    /\ frame' = r.frame
    /\ ret' = r.ret
    /\ last' = op

AddPeerCall ==
    \E ip \in Addrs, kf \in KeyPaths, ifc \in Ifaces, pk \in PubKeys \cup {None} :
      \E env \in Envs(pk, None) :
        /\ \E r \in {AddPeer(Start(peers, files), ip, kf, ifc, pk, None, None, env)} :
               Finish(r, Op("call", "add", <<ip, kf, ifc, pk, None, None>>,
                            r.status, ExitStatus(r.status)))
        /\ UNCHANGED deliveries

\* add_peer with a recipient; deliveries counts these calls
AddPeerMailCall ==
    \E ip \in Addrs, kf \in KeyPaths, ifc \in Ifaces, pk \in PubKeys \cup {None},
       dir \in {None, OutDir} :
      \E env \in Envs(pk, Recipient) :
        /\ deliveries < MaxDeliveries
        /\ deliveries' = deliveries + 1
        /\ \E r \in {AddPeer(Start(peers, files), ip, kf, ifc, pk, dir, Recipient, env)} :
               Finish(r, Op("call", "add", <<ip, kf, ifc, pk, dir, Recipient>>,
                            r.status, ExitStatus(r.status)))

RemovePeerCall ==
    \E pk \in PubKeys, ifc \in Ifaces :
        /\ \E r \in {RemovePeer(Start(peers, files), pk, ifc)} :
               Finish(r, Op("call", "remove", <<pk, ifc>>, r.status,
                            ExitStatus(r.status)))
        /\ UNCHANGED deliveries

ListPeersCall ==
    \E ifc \in Ifaces :
        /\ \E r \in {ListPeers(Start(peers, files), ifc)} :
               Finish(r, Op("call", "list", <<ifc>>, r.status,
                            ExitStatus(r.status)))
        /\ UNCHANGED deliveries

SavePeersCall ==
    \E ifc \in Ifaces, dest \in DestPaths :
        /\ \E r \in {SavePeers(Start(peers, files), ifc, dest)} :
               Finish(r, Op("call", "save", <<ifc, dest>>, r.status,
                            ExitStatus(r.status)))
        /\ UNCHANGED deliveries

\* command lines: publicKey?, allowedAddress, privateKeyStorageRef, interfaceName
MainArgvs ==
    {<<>>, << <<"bogus">> >>, << <<"add">> >>}
        \cup {<< <<"add">>, pk, ip, kf, ifc >> :
                 pk \in PubKeys \cup {None}, ip \in Addrs, kf \in KeyPaths,
                 ifc \in Ifaces}
        \cup {<< <<"remove">>, pk, ifc >> : pk \in PubKeys, ifc \in Ifaces}
        \cup {<< <<"list">>, ifc >> : ifc \in Ifaces}
        \cup {<< <<"save">>, ifc, dest >> : ifc \in Ifaces, dest \in DestPaths}

\* only the add command meets key generation
MainEnvs(argv) ==
    IF ParseOk(argv) /\ argv[1] = <<"add">>
    THEN Envs(argv[5], None)
    ELSE Envs(<<"-">>, None)

Main ==
    \E argv \in MainArgvs :
      \E env \in MainEnvs(argv) :
        /\ IF ~ParseOk(argv)
           THEN Finish(Start(peers, files), Op("main", "usage", argv, "usage", 2))
           ELSE \E r \in {Dispatch(Start(peers, files), argv, env)} :
                    Finish(r, Op("main", argv[1][1], Tail(argv), r.status,
                                 ExitStatus(r.status)))
        /\ UNCHANGED deliveries

Next ==
    \/ AddPeerCall
    \/ RemovePeerCall
    \/ ListPeersCall
    \/ SavePeersCall
    \/ Main

Spec == Init /\ [][Next]_vars

\* the same program driven by an importer that also mails profiles: any
\* sequence of plain calls, then up to MaxDeliveries calls with a recipient
NextMail ==
    \/ deliveries = 0 /\ AddPeerCall
    \/ deliveries = 0 /\ RemovePeerCall
    \/ AddPeerMailCall

SpecMail == Init /\ [][NextMail]_vars

-----------------------------------------------------------------------------
(* Vocabulary of the properties *)

\* the public keys of an authorization set, in the order of the device
Keys(seq) == [i \in 1..Len(seq) |-> seq[i].pk]

Count(l, x) == Cardinality({i \in 1..Len(l) : l[i] = x})

Where(l, c) == {i \in 1..Len(l) : l[i].call = c}

\* the strings of a JSON list of strings
RECURSIVE JsonStrings(_)
JsonStrings(t) ==
    IF \A i \in 1..Len(t) : t[i] # "\""
    THEN <<>>
    ELSE LET i == CHOOSE k \in 1..Len(t) :
                      t[k] = "\"" /\ \A j \in 1..(k - 1) : t[j] # "\""
             rest == SubSeq(t, i + 1, Len(t))
             j == CHOOSE k \in 1..Len(rest) :
                      rest[k] = "\"" /\ \A m \in 1..(k - 1) : rest[m] # "\""
         IN  <<SubSeq(rest, 1, j - 1)>> \o JsonStrings(SubSeq(rest, j + 1, Len(rest)))

JsonLoad(t) ==
    IF Len(t) >= 2 /\ t[1] = "[" /\ t[Len(t)] = "]"
    THEN JsonStrings(SubSeq(t, 2, Len(t) - 1))
    ELSE << <<"not a list">> >>

\* the parameters add_peer was entered with:
\* <<ip_address, private_key_file, wg_interface, pubkey>>
Entered == trace[1].args

IsAdd == last.cmd = "add" /\ trace # <<>> /\ trace[1].call = "add_peer"

\* the authorize call of the last add returned zero
Authorized ==
    /\ IsAdd
    /\ \E i \in Where(trace, "wg") : i < Len(trace) \/ last.status = "ok"

\* the last add got past key provisioning
Provisioned ==
    /\ IsAdd
    /\ \/ frame.generated
       \/ Entered[4] # None /\ frame.pubkey # None

DeliverySteps == {"save", "attach", "smtp", "login", "sendmail"}

DeliveryStarted == \E i \in 1..Len(trace) : trace[i].call \in DeliverySteps

\* the lines of a text, each ended by a newline
Lines(text) ==
    IF text # <<>> /\ text[Len(text)] = NL
    THEN SplitOn(SubSeq(text, 1, Len(text) - 1), NL)
    ELSE SplitOn(text, NL)

\* the image file a delivery of the last add writes
Image == ImageName(IF last.via = "call" THEN last.argv[5] ELSE None, frame.pubkey)

-----------------------------------------------------------------------------
(* Properties *)

\* C1: the add command of the command line (publicKey?, allowedAddress,
\* privateKeyStorageRef, interfaceName) hands each argument to add_peer in
\* its role; without a public key a successful add has written the new private
\* key to privateKeyStorageRef, has issued the authorize call for the new
\* public key on interfaceName with allowedAddress/24 and that key file, and
\* the interface then lists the public key.
C1_AddArgumentRoles ==
    (last.via = "main" /\ last.cmd = "add") =>
        LET publicKey == last.argv[1]
            allowedAddress == last.argv[2]
            privateKeyStorageRef == last.argv[3]
            interfaceName == last.argv[4]
        IN  /\ trace # <<>>
            /\ trace[1] = Call("add_peer",
                               <<allowedAddress, privateKeyStorageRef,
                                 interfaceName, publicKey>>, None)
            /\ (publicKey = None /\ last.status = "ok") =>
                  /\ frame.generated
                  /\ privateKeyStorageRef \in DOMAIN files
                  /\ files[privateKeyStorageRef] = frame.privkey
                  /\ \E i \in Where(trace, "wg") :
                        trace[i].args =
                            SplitWS(AddCmd(interfaceName, frame.pubkey,
                                           allowedAddress, privateKeyStorageRef))
                  /\ interfaceName \in Devices
                  /\ Count(Keys(peers[interfaceName]), frame.pubkey) = 1

\* C2: every recognized selector makes main invoke its operation exactly
\* once; a successful save has written the peer list of the interface to the
\* destination and a successful list has produced the ordered public keys.
OperationOf(cmd) ==
    IF cmd = "add" THEN "add_peer"
    ELSE IF cmd = "remove" THEN "remove_peer"
    ELSE IF cmd = "list" THEN "list_peers"
    ELSE "save_peers"

C2_DispatchInvokesOperation ==
    (last.via = "main" /\ last.cmd \in Commands) =>
        /\ Cardinality(Where(trace, OperationOf(last.cmd))) = 1
        /\ (last.cmd = "save" /\ last.status = "ok") =>
              /\ last.argv[2] \in DOMAIN files
              /\ JsonLoad(files[last.argv[2]]) = Keys(peers[last.argv[1]])
        /\ (last.cmd = "list" /\ last.status = "ok") =>
              ret = Keys(peers[last.argv[1]])

C4_RevokeIdempotent ==
    [][last'.cmd = "remove" =>
          LET pk == last'.argv[1]
              ifc == last'.argv[2]
          IN  /\ (ifc \in Devices /\ Index(peers[ifc], pk) = 0) =>
                     /\ last'.status = "ok"
                     /\ last'.exit = 0
                     /\ peers' = peers
              /\ (last.cmd = "remove" /\ last.argv = last'.argv
                    /\ last.status = "ok") =>
                     /\ last'.status = "ok"
                     /\ last'.exit = 0
                     /\ peers' = peers
              /\ ifc \in Devices =>
                     /\ Index(peers'[ifc], pk) = 0
                     /\ SelectSeq(peers'[ifc], LAMBDA e : e.pk # pk)
                            = SelectSeq(peers[ifc], LAMBDA e : e.pk # pk)
    ]_vars

\* reached: a remove of a key the interface did not hold, another peer being
\* there, that succeeded and left the interface as it was
C4_Witness ==
    /\ last.cmd = "remove"
    /\ last.status = "ok"
    /\ last.exit = 0
    /\ last.argv[2] \in Devices
    /\ Index(peers0[last.argv[2]], last.argv[1]) = 0
    /\ peers0[last.argv[2]] # <<>>
    /\ peers = peers0

\* C5: list_peers on an existing interface returns the public keys of the
\* peers the query reports, one element per peer and in its order, and the
\* empty sequence when there is no peer.
C5_ListReturnsEveryKey ==
    (last.via = "call" /\ last.cmd = "list" /\ last.argv[1] \in Devices) =>
        /\ last.status = "ok"
        /\ ret = Keys(peers[last.argv[1]])

\* C6: save_peers writes to the destination the JSON list of exactly what
\* list_peers returns on the interface as the operation finds it, replacing
\* what the file held and touching no other file; when list_peers fails the
\* operation fails and every file is as it was.
C6_SnapshotFidelity ==
    (last.via = "call" /\ last.cmd = "save") =>
        LET ifc == last.argv[1]
            dest == last.argv[2]
            listed == ListPeers(Start(peers0, files0), ifc)
        IN  IF listed.status = "ok"
            THEN /\ last.status = "ok"
                 /\ dest \in DOMAIN files
                 /\ JsonLoad(files[dest]) = listed.ret
                 /\ DOMAIN files = DOMAIN files0 \cup {dest}
                 /\ \A n \in DOMAIN files0 : n # dest => files[n] = files0[n]
                 /\ peers = peers0
            ELSE /\ last.status = "error"
                 /\ files = files0
                 /\ peers = peers0

\* reached: a save of two peers over a destination that held another list
C6_Witness ==
    /\ last.via = "call"
    /\ last.cmd = "save"
    /\ last.status = "ok"
    /\ last.argv[2] \in DOMAIN files0
    /\ files0[last.argv[2]] # files[last.argv[2]]
    /\ Len(JsonLoad(files[last.argv[2]])) = 2
    /\ JsonLoad(files[last.argv[2]]) = Keys(peers[last.argv[1]])

\* C7: in add_peer with a recipient no delivery step starts before the
\* authorize call has returned zero, add_peer issues one authorize call and
\* nothing else on the control command, and when a delivery step fails the
\* operation fails while the peer stays authorized with the address given.
C7_DeliveryAfterAuthorize ==
    (IsAdd /\ last.via = "call" /\ last.argv[6] # None) =>
        /\ Cardinality(Where(trace, "wg")) <= 1
        /\ Where(trace, "remove_peer") = {}
        /\ \A i \in Where(trace, "wg") :
              /\ Len(trace[i].args) = 10
              /\ trace[i].args[7] = <<"allowed-ips">>
        /\ DeliveryStarted =>
              /\ Authorized
              /\ \A i \in Where(trace, "wg"), j \in 1..Len(trace) :
                    trace[j].call \in DeliverySteps => i < j
        /\ (DeliveryStarted /\ last.status = "error") =>
              /\ last.exit # 0
              /\ Index(peers[frame.wg_interface], frame.pubkey) # 0
              /\ peers[frame.wg_interface]
                      [Index(peers[frame.wg_interface], frame.pubkey)].allowed
                     = frame.ip_address \o <<"/24">>

\* reached: the send step failed after a new peer was authorized, which is
\* still on the interface
C7_Witness ==
    /\ IsAdd
    /\ last.via = "call"
    /\ last.argv[6] # None
    /\ last.status = "error"
    /\ trace[Len(trace)].call = "sendmail"
    /\ Index(peers0[frame.wg_interface], frame.pubkey) = 0
    /\ Index(peers[frame.wg_interface], frame.pubkey) # 0

\* C8 as stated: the key pair add_peer works with always corresponds,
\* whatever the key file held.
C8_PairAlwaysCorresponds ==
    Provisioned => frame.pubkey = Derive(frame.privkey)

\* C8 amended: without a public key the pair is a generated private key and
\* the key derived from it; with a public key it is that key and the stripped
\* content of the key file, taken as they are.  The authorize call and the
\* profile use this pair.
C8_PairAsProvisioned ==
    Provisioned =>
        /\ IF Entered[4] = None
           THEN /\ frame.generated
                /\ frame.pubkey # None
                /\ frame.pubkey = Derive(frame.privkey)
           ELSE /\ ~frame.generated
                /\ frame.pubkey = Entered[4]
                /\ Entered[2] \in DOMAIN files0
                /\ frame.privkey = Strip(files0[Entered[2]])
        /\ \A i \in Where(trace, "wg") :
              Len(trace[i].args) = 10 => trace[i].args[6] = frame.pubkey
        /\ frame.qr_data # None =>
              /\ Lines(frame.qr_data)[2] = <<"private_key", SP>> \o frame.privkey
              /\ Lines(frame.qr_data)[3] = <<"peer", SP>> \o frame.pubkey

\* reached: a peer authorized with a supplied public key and the private key
\* read from a file that ended with a newline
C8_Witness ==
    /\ Authorized
    /\ Entered[4] # None
    /\ frame.qr_data # None
    /\ files0[Entered[2]] # frame.privkey
    /\ frame.pubkey = Derive(frame.privkey)

\* C9: without a public key, key provisioning writes the key file once, with
\* the generated private key and before the authorize call, so that the file
\* holds that key once the peer is authorized, and writes nothing else; with
\* a public key it writes nothing: the key file and every file but the image
\* of a delivery are as they were.
C9_ProvisionWrites ==
    IsAdd =>
        LET kf == Entered[2]
            writes == Where(trace, "write")
        IN  /\ \A n \in DOMAIN files0 :
                  n \notin {kf, Image} => n \in DOMAIN files /\ files[n] = files0[n]
            /\ DOMAIN files \subseteq DOMAIN files0 \cup {kf, Image}
            /\ IF Entered[4] = None
               THEN /\ Cardinality(writes) <= 1
                    /\ \A i \in writes : trace[i].args = <<kf>>
                    /\ \A i \in writes, j \in Where(trace, "wg") : i < j
                    /\ frame.generated =>
                          /\ Cardinality(writes) = 1
                          /\ kf \in DOMAIN files
                          /\ files[kf] = frame.privkey
                          /\ frame.privkey \in PrivKeys
                    /\ ~frame.generated =>
                          /\ kf \in DOMAIN files0 <=> kf \in DOMAIN files
                          /\ kf \in DOMAIN files0 => files[kf] = files0[kf]
                    /\ Authorized => frame.generated
               ELSE /\ writes = {}
                    /\ kf \in DOMAIN files0 <=> kf \in DOMAIN files
                    /\ kf \in DOMAIN files0 => files[kf] = files0[kf]

\* reached: a peer authorized with a generated key that replaced another key
\* in the key file
C9_Witness ==
    /\ Authorized
    /\ frame.generated
    /\ Entered[2] \in DOMAIN files0
    /\ files0[Entered[2]] # files[Entered[2]]
    /\ files[Entered[2]] = frame.privkey

\* C10: the profile text of add_peer has the five lines interface, private
\* key, peer, allowed address with the /32 mask and endpoint, in this order,
\* and the image is made from this text, with or without a recipient.
C10_ProfileFiveLines ==
    (IsAdd /\ frame.qr_data # None) =>
        LET l == Lines(frame.qr_data)
        IN  /\ Len(l) = 5
            /\ l[1] = <<"interface", SP>> \o frame.wg_interface
            /\ l[2] = <<"private_key", SP>> \o frame.privkey
            /\ l[3] = <<"peer", SP>> \o frame.pubkey
            /\ l[4] = <<"allowed_ips", SP>> \o frame.ip_address \o <<"/32">>
            /\ Head(l[5]) = "endpoint"
            /\ frame.img = QrMake(frame.qr_data)

====
